---- MODULE Spec2Model ----
(***************************************************************************)
(* A model of the form-state engine of formular (createForm and its        *)
(* helpers).  The registry `data` is the Solid store of the newest draft   *)
(* (src/unnamed/part_000, second createForm); the oldest draft             *)
(* (src/src/index.tsx) is modelled beside it where its code differs.       *)
(*                                                                         *)
(* Strings that the code takes apart (field names) are sequences of        *)
(* one-character tokens; values carry their JavaScript type as a tag.      *)
(***************************************************************************)
EXTENDS Integers, Sequences, FiniteSets, TLC

(***************************************************************************)
(* JavaScript values a field can hold.                                     *)
(***************************************************************************)
Str(s) == [s |-> s, k |-> "str", b |-> FALSE, n |-> 0, a |-> <<>>]
Bool(b) == [s |-> "", k |-> "bool", b |-> b, n |-> 0, a |-> <<>>]
Num(n) == [s |-> "", k |-> "num", b |-> FALSE, n |-> n, a |-> <<>>]
Arr(a) == [s |-> "", k |-> "arr", b |-> FALSE, n |-> 0, a |-> a]

\* the result of a validator that returns nothing
Undefined == "<undefined>"
\* no bound element (ref is undefined)
NoRef == "<noref>"

\* JavaScript truthiness of a value (`!value` is its negation)
Truthy(v) ==
  CASE v.k = "str" -> v.s # ""
    [] v.k = "bool" -> v.b
    [] v.k = "num" -> v.n # 0
    [] OTHER -> TRUE

\* `value?.length == 0`: strings and arrays have a length, numbers and
\* booleans give undefined, and undefined == 0 is false
LengthIsZero(v) ==
  CASE v.k = "str" -> v.s = ""
    [] v.k = "arr" -> Len(v.a) = 0
    [] OTHER -> FALSE

\* `value != ""` (loose inequality): the other operand is converted, so the
\* empty string, 0, false and an array that joins to "" all equal ""
LooseNotEmptyString(v) ==
  CASE v.k = "str" -> v.s # ""
    [] v.k = "bool" -> v.b
    [] v.k = "num" -> v.n # 0
    [] OTHER -> ~(Len(v.a) = 0 \/ (Len(v.a) = 1 /\ v.a[1] = ""))

(***************************************************************************)
(* stable-hash of a value, as a sequence of tokens: strings are quoted     *)
(* (JSON.stringify), numbers and booleans print bare, an array is "@"      *)
(* followed by each element's hash and a comma.                            *)
(***************************************************************************)
RECURSIVE hashElems(_)
hashElems(a) ==
  IF a = <<>> THEN <<>>
  ELSE <<"\"", Head(a), "\"", ",">> \o hashElems(Tail(a))

stableHash(v) ==
  CASE v.k = "str" -> <<"\"", v.s, "\"">>
    [] v.k = "bool" -> <<IF v.b THEN "true" ELSE "false">>
    [] v.k = "num" -> <<"#", ToString(v.n)>>
    [] OTHER -> <<"@">> \o hashElems(v.a)

(***************************************************************************)
(* validators.ts: required(message)                                        *)
(***************************************************************************)
required(message, value) ==
  IF value.k # "num" /\ ~Truthy(value) THEN message
  ELSE IF LengthIsZero(value) THEN message
  ELSE Undefined

\* the promise of a validator that never settles
Hung == "<never>"

\* The validators the model registers: the repository's `required`, two
\* that always fail with a fixed message, one that always passes, one
\* whose promise never settles and one that wants the empty string.
Validators == {"required", "failA", "failB", "pass", "hang", "empty"}

\* validator(value, values): the message it resolves to, or Undefined, or
\* Hung when it resolves to nothing ever
RunValidator(v, value) ==
  CASE v = "required" -> required("R", value)
    [] v = "failA" -> "A"
    [] v = "failB" -> "B"
    [] v = "hang" -> Hung
    [] v = "empty" -> IF value = Str("") THEN Undefined ELSE "N"
    [] OTHER -> Undefined

(***************************************************************************)
(* Path Analyzer                                                           *)
(***************************************************************************)
Digits == {"0", "1"}

\* name.split("."): the pieces between the dots, in order
RECURSIVE splitFrom(_, _, _)
splitFrom(name, i, cur) ==
  IF i > Len(name) THEN <<cur>>
  ELSE IF name[i] = "." THEN <<cur>> \o splitFrom(name, i + 1, <<>>)
  ELSE splitFrom(name, i + 1, Append(cur, name[i]))

split(name) == splitFrom(name, 1, <<>>)

\* !isNaN(Number(part)) over the model's alphabet: Number("") is 0, a run of
\* digits is a number, and so is a binary literal 0b...
isNumber(part) ==
  \/ \A i \in 1..Len(part) : part[i] \in Digits
  \/ /\ Len(part) >= 3
     /\ part[1] = "0"
     /\ part[2] = "b"
     /\ \A i \in 3..Len(part) : part[i] \in Digits

analyzeNamePath(name) ==
  LET parts == split(name)
  IN [i \in 1..Len(parts) |-> [value |-> parts[i], arrayIndex |-> isNumber(parts[i])]]

(***************************************************************************)
(* Bounds and the inputs the operations are called with.                   *)
(***************************************************************************)
\* longest error list the model lets addError build
MaxErrors == 1

\* field names: "a.b", "a.c" and "i.0" (no name is a prefix of another)
NameAB == <<"a", ".", "b">>
NameAC == <<"a", ".", "c">>
NameI0 == <<"i", ".", "0">>
Names == {NameAB, NameI0}

\* bound element handles: every field has an input element of its own
Elems == {"e1", "e2"}
ElemOf(name) == IF name = NameAB THEN "e1" ELSE "e2"

\* values written by the callers: "", "x" and the unchecked checkbox's false
Values == {Str(""), Str("x"), Bool(FALSE)}

\* validator lists handed to addField
ValidatorLists == {<<>>, <<"required">>, <<"failA", "failB">>}

\* messages handed to addError
ExternalErrors == {"E"}

\* validate calls the model keeps in flight at once
MaxTasks == 1

Tasks == 1..MaxTasks

VARIABLES
  data,           \* the registry: field name -> Field, for the registered names
  order,          \* Object.keys(data): the registered names in insertion order
  initialData,    \* the InitialSnapshot store: field name -> value
  initialOrder,   \* Object.keys(initialData): the snapshot's names in insertion order
  initialValues,  \* the oldest draft's createForm(initialValues) argument
  tasks,          \* the validate calls: where each is suspended, what it holds
  lastCall        \* the call that produced this state and what it gave back

vars == <<data, order, initialData, initialOrder, initialValues, tasks, lastCall>>

\* no value: nothing was written to an element
Nothing == [s |-> "", k |-> "nothing", b |-> FALSE, n |-> 0, a |-> <<>>]

\* a validate call that is not running
IdleTask ==
  [i |-> 0, st |-> "idle", kind |-> "single", focusOnError |-> FALSE,
   names |-> <<>>, pos |-> 0, isValid |-> TRUE,
   alreadyFocusField |-> FALSE, validators |-> <<>>, errors |-> <<>>,
   pending |-> Undefined,
   invoked |-> <<>>, returned |-> <<>>, collected |-> <<>>, focused |-> <<>>,
   ret |-> FALSE, submit |-> FALSE]

\* the name argument of clearErrors and validate: omitted, one name, or a
\* list of names
NoArg == [kind |-> "omitted", one |-> <<>>, many |-> <<>>]
OneName(name) == [kind |-> "one", one |-> name, many |-> <<>>]
ManyNames(names) == [kind |-> "many", one |-> <<>>, many |-> names]

\* handleSubmit's callback: whether the step called it, and with what
Callback(called, values) == [called |-> called, values |-> values]
NotCalled == Callback(FALSE, <<>>)

\* the arguments of a call besides the name: a value and two indices
Args(value, a, b) == [b |-> b, a |-> a, value |-> value]
NoArgs == Args(Nothing, 0, 0)

\* a synchronous call: its name argument, how it ended, the value it wrote
\* onto an element and the element it focused
Call(op, name, out, wrote, focused) ==
  [name |-> name, focused |-> focused, op |-> op, out |-> out, wrote |-> wrote,
   task |-> 0, run |-> IdleTask, args |-> NoArgs, target |-> NoArg,
   callback |-> NotCalled, entries |-> <<>>]

Has(d, name) == name \in DOMAIN d

\* d with d[name] set to rec (a new key goes last in Object.keys)
Put(d, name, rec) ==
  [k \in DOMAIN d \cup {name} |-> IF k = name THEN rec ELSE d[k]]

(***************************************************************************)
(* Field Registry (newest draft)                                           *)
(***************************************************************************)
\* touch without its existence check: setData(name, "touched", true) reads a
\* member of undefined for a name the store does not hold
touchUnguarded(name) ==
  /\ data' = IF ~Has(data, name) THEN data
             ELSE [data EXCEPT ![name].touched = TRUE]
  /\ lastCall' = Call("touch", name, IF Has(data, name) THEN "ok" ELSE "TypeError",
                      Nothing, NoRef)
  /\ UNCHANGED <<order, initialData, initialOrder, initialValues, tasks>>

touch(name) ==
  /\ data' = IF ~Has(data, name) THEN data
             ELSE [data EXCEPT ![name].touched = TRUE]
  /\ lastCall' = Call("touch", name, "ok", Nothing, NoRef)
  /\ UNCHANGED <<order, initialData, initialOrder, initialValues, tasks>>

setFieldRef(name, ref) ==
  /\ data' = IF ~Has(data, name) THEN data
             ELSE [data EXCEPT ![name].ref = ref]
  /\ lastCall' = Call("setFieldRef", name, "ok", Nothing, NoRef)
  /\ UNCHANGED <<order, initialData, initialOrder, initialValues, tasks>>

addError(name, error, focus) ==
  /\ Has(data, name) => Len(data[name].errors) < MaxErrors
  /\ data' = IF ~Has(data, name) THEN data
             ELSE [data EXCEPT ![name].errors = Append(@, error)]
  /\ lastCall' = Call("addError", name, "ok", Nothing,
                  IF Has(data, name) /\ focus THEN data[name].ref ELSE NoRef)
  /\ UNCHANGED <<order, initialData, initialOrder, initialValues, tasks>>

\* setField that builds the record anew: { value, touched: true, errors: [] }
setFieldDataResetsErrors(d, name, value) ==
  IF ~Has(d, name) THEN d
  ELSE [d EXCEPT ![name].value = value, ![name].touched = TRUE, ![name].errors = <<>>]

\* the two setData calls of setField, batched
setFieldData(d, name, value) ==
  IF ~Has(d, name) THEN d
  ELSE [d EXCEPT ![name].value = value, ![name].touched = TRUE]

\* what setField writes onto the bound element
setFieldWrote(d, name, value, updateElementValue) ==
  IF Has(d, name) /\ updateElementValue /\ d[name].ref # NoRef THEN value ELSE Nothing

setField(name, value, updateElementValue) ==
  /\ data' = setFieldData(data, name, value)
  /\ lastCall' = [Call("setField", name, "ok",
                       setFieldWrote(data, name, value, updateElementValue), NoRef)
                    EXCEPT !.args = Args(value, 0, 0)]
  /\ UNCHANGED <<order, initialData, initialOrder, initialValues, tasks>>

\* setData(name, {...}) merges the six members into an existing record and
\* creates the record otherwise: either way the record is the new object
addField(name, validators, defaultValue, element) ==
  LET value == IF Has(data, name) THEN data[name].value ELSE defaultValue
      path == analyzeNamePath(name)
  IN /\ data' = Put(data, name,
                    [value |-> value, validators |-> validators, errors |-> <<>>,
                     touched |-> FALSE, ref |-> element, path |-> path])
     /\ order' = IF Has(data, name) THEN order ELSE Append(order, name)
     /\ lastCall' = Call("addField", name, "ok",
                     IF Has(data, name) /\ element # NoRef
                     THEN data[name].value ELSE Nothing,
                     NoRef)
     /\ UNCHANGED <<initialData, initialOrder, initialValues, tasks>>

\* setData(data => newData) with one argument merges newData into the store
\* (Solid merges objects shallowly; only a member set to undefined is
\* deleted), and newData holds every other key with its own record: the
\* store keeps all its keys, `name` included
removeField(name) ==
  LET newData == [k \in DOMAIN data \ {name} |-> data[k]]
  IN /\ data' = [k \in DOMAIN data |-> IF k \in DOMAIN newData THEN newData[k] ELSE data[k]]
     /\ lastCall' = Call("removeField", name, "ok", Nothing, NoRef)
     /\ UNCHANGED <<order, initialData, initialOrder, initialValues, tasks>>

(***************************************************************************)
(* Field Registry (oldest draft, src/src/index.tsx): addField takes the    *)
(* value from the element, the default or createForm's initialValues, and  *)
(* removeField deletes the key.                                            *)
(***************************************************************************)
\* an element handed to addField: its handle, its type and what it shows
Element(ref, type, value, checked) ==
  [value |-> value, ref |-> ref, type |-> type, checked |-> checked]
NoElement == Element(NoRef, "", Str(""), FALSE)

addFieldIndex(name, validators, defaultValue, element) ==
  LET fromElement == IF element.ref = NoRef THEN defaultValue
                     ELSE IF element.type = "checkbox" THEN Bool(element.checked)
                     ELSE element.value
      value == IF Has(initialValues, name) THEN initialValues[name] ELSE fromElement
  IN /\ data' = Put(data, name,
                    [value |-> value, validators |-> validators, errors |-> <<>>,
                     touched |-> FALSE, ref |-> element.ref,
                     path |-> analyzeNamePath(name)])
     /\ order' = IF Has(data, name) THEN order ELSE Append(order, name)
     /\ lastCall' = Call("addField", name, "ok",
                         IF Has(initialValues, name) /\ element.ref # NoRef
                         THEN value ELSE Nothing,
                         NoRef)
     /\ UNCHANGED <<initialData, initialOrder, initialValues, tasks>>

RECURSIVE Without(_, _)
Without(keys, name) ==
  IF keys = <<>> THEN <<>>
  ELSE IF Head(keys) = name THEN Without(Tail(keys), name)
  ELSE <<Head(keys)>> \o Without(Tail(keys), name)

\* delete data[name]
removeFieldIndex(name) ==
  /\ data' = [k \in DOMAIN data \ {name} |-> data[k]]
  /\ order' = Without(order, name)
  /\ lastCall' = Call("removeField", name, "ok", Nothing, NoRef)
  /\ UNCHANGED <<initialData, initialOrder, initialValues, tasks>>

(***************************************************************************)
(* Dirty/Validity Evaluator                                                *)
(***************************************************************************)
\* isFormValid with the condition read as (errors || validators) && !touched
RECURSIVE isFormValidRegrouped(_, _, _)
isFormValidRegrouped(d, keys, i) ==
  IF i > Len(keys) THEN TRUE
  ELSE LET field == d[keys[i]]
       IN IF (Len(field.errors) > 0 \/ Len(field.validators) > 0) /\ ~field.touched
          THEN FALSE
          ELSE isFormValidRegrouped(d, keys, i + 1)

\* for (const key in data) { if (...) return false } return true
RECURSIVE isFormValidFrom(_, _, _)
isFormValidFrom(d, keys, i) ==
  IF i > Len(keys) THEN TRUE
  ELSE LET field == d[keys[i]]
       IN IF Len(field.errors) > 0 \/ (Len(field.validators) > 0 /\ ~field.touched)
          THEN FALSE
          ELSE isFormValidFrom(d, keys, i + 1)

isFormValidPrecedence(d, keys) == isFormValidRegrouped(d, keys, 1)

isFormValid(d, keys) == isFormValidFrom(d, keys, 1)

isFieldDirty(d, init, name) ==
  IF ~Has(d, name) THEN FALSE
  ELSE LET value == d[name].value
       IN IF ~Has(init, name) THEN LooseNotEmptyString(value)
          ELSE stableHash(init[name]) # stableHash(value)

\* the memo `dirty`: one entry per registered field
dirty(d, init) == [key \in DOMAIN d |-> isFieldDirty(d, init, key)]

\* the memo `isDirty`: some entry of dirty() is true
isDirty(d, init) == \E key \in DOMAIN dirty(d, init) : dirty(d, init)[key]

(***************************************************************************)
(* Nested-Object Projector.  The projected object is a map from the paths  *)
(* (sequences of keys, from the root) that exist in it to what is there:   *)
(* a container ("object" or "array") or a leaf holding a member.  The      *)
(* cursor `last` is the root or a container of that object ("node"), a     *)
(* primitive ("prim"), an array of the store ("store": an error list or    *)
(* an array value, which the store's proxy does not let the caller         *)
(* write) or undefined ("undef").                                          *)
(***************************************************************************)
IsPrefix(p, q) == Len(p) <= Len(q) /\ SubSeq(q, 1, Len(p)) = p

\* object with the slot at path p assigned: what was below p is gone
Assign(object, p, node) ==
  [q \in {r \in DOMAIN object : ~IsPrefix(p, r)} \cup {p} |->
     IF q = p THEN node ELSE object[q]]

Container(t) == [v |-> Nothing, t |-> t, member |-> "value"]
Leaf(member, v) == [v |-> v, t |-> "leaf", member |-> member]

\* the cursor after `last = last[key]` when the slot at p holds node
CursorAt(p, node) ==
  IF node.t # "leaf" THEN [a |-> <<>>, p |-> p, t |-> "node"]
  ELSE IF node.member = "errors" THEN [a |-> node.v, p |-> p, t |-> "store"]
  ELSE IF node.member = "value" /\ node.v.k = "arr" THEN [a |-> node.v.a, p |-> p, t |-> "store"]
  ELSE [a |-> <<>>, p |-> p, t |-> "prim"]

\* the index a key names in a store array of length n, or 0
StoreIndex(key, n) ==
  IF key = <<"0">> /\ n >= 1 THEN 1
  ELSE IF key = <<"1">> /\ n >= 2 THEN 2
  ELSE 0

\* the container made for segment i with the test put on segment i itself
ContainerKindOfOwnSegment(path, i) ==
  IF path[i].arrayIndex THEN "array" ELSE "object"

\* path[i + 1]?.arrayIndex ? [] : {}
ContainerKind(path, i) ==
  IF i < Len(path) /\ path[i + 1].arrayIndex THEN "array" ELSE "object"

RECURSIVE createObjectFromPathAt(_, _, _, _, _)
createObjectFromPathAt(object, path, leaf, i, last) ==
  IF i > Len(path) THEN [object |-> object, threw |-> FALSE]
  ELSE
    LET part == path[i]
        final == (i = Len(path))
        kind == ContainerKind(path, i)
    IN CASE last.t = "undef" ->
              \* undefined.hasOwnProperty
              [object |-> object, threw |-> TRUE]
         [] last.t = "prim" ->
              \* the code is a module (strict): assigning a member of a
              \* primitive throws, here or at the last segment
              [object |-> object, threw |-> TRUE]
         [] last.t = "store" ->
              \* writes through the store's proxy are dropped
              IF final THEN [object |-> object, threw |-> FALSE]
              ELSE createObjectFromPathAt(object, path, leaf, i + 1,
                     IF StoreIndex(part.value, Len(last.a)) > 0
                     THEN [a |-> <<>>, p |-> <<>>, t |-> "prim"]
                     ELSE [a |-> <<>>, p |-> <<>>, t |-> "undef"])
         [] OTHER ->
              LET p == Append(last.p, part.value)
                  created == IF p \in DOMAIN object THEN object
                             ELSE Assign(object, p, Container(kind))
              IN IF final
                 THEN [object |-> Assign(created, p, leaf), threw |-> FALSE]
                 ELSE createObjectFromPathAt(created, path, leaf, i + 1,
                                             CursorAt(p, created[p]))

createObjectFromPath(object, path, leaf) ==
  createObjectFromPathAt(object, path, leaf, 1, [a |-> <<>>, p |-> <<>>, t |-> "node"])

Member(field, memberKey) ==
  CASE memberKey = "value" -> field.value
    [] memberKey = "touched" -> field.touched
    [] OTHER -> field.errors

RECURSIVE extractFieldsMemberFrom(_, _, _, _, _)
extractFieldsMemberFrom(d, keys, memberKey, i, object) ==
  IF i > Len(keys) THEN [object |-> object, threw |-> FALSE]
  ELSE LET r == createObjectFromPath(object, d[keys[i]].path,
                                     Leaf(memberKey, Member(d[keys[i]], memberKey)))
       IN IF r.threw THEN r
          ELSE extractFieldsMemberFrom(d, keys, memberKey, i + 1, r.object)

extractFieldsMember(d, keys, memberKey) ==
  extractFieldsMemberFrom(d, keys, memberKey, 1, <<>>)

(***************************************************************************)
(* clearErrors.  setData(key, "errors", []) on a key the store does not    *)
(* hold reads a member of undefined and throws; what was cleared before    *)
(* stays cleared.                                                          *)
(***************************************************************************)
\* the loop leaving after its first setData
clearEachReturnsEarly(d, keys, i) ==
  IF i > Len(keys) THEN [data |-> d, threw |-> FALSE]
  ELSE IF ~Has(d, keys[i]) THEN [data |-> d, threw |-> TRUE]
  ELSE [data |-> [d EXCEPT ![keys[i]].errors = <<>>], threw |-> FALSE]

RECURSIVE clearEach(_, _, _)
clearEach(d, keys, i) ==
  IF i > Len(keys) THEN [data |-> d, threw |-> FALSE]
  ELSE IF ~Has(d, keys[i]) THEN [data |-> d, threw |-> TRUE]
  ELSE clearEach([d EXCEPT ![keys[i]].errors = <<>>], keys, i + 1)

\* arg: NoArg, OneName(name) or ManyNames(names)
clearErrors(arg) ==
  LET r == IF arg.kind = "omitted" \/ (arg.kind = "many" /\ Len(arg.many) = 0)
           THEN clearEach(data, order, 1)
           ELSE IF arg.kind = "many" THEN clearEach(data, arg.many, 1)
           ELSE clearEach(data, <<arg.one>>, 1)
  IN /\ data' = r.data
     /\ lastCall' = [Call("clearErrors", arg.one,
                          IF r.threw THEN "TypeError" ELSE "ok", Nothing, NoRef)
                       EXCEPT !.target = arg]
     /\ UNCHANGED <<order, initialData, initialOrder, initialValues, tasks>>

(***************************************************************************)
(* setValues and setInitialValues.  An argument object is a tree:          *)
(* [t |-> "obj", kids |-> <<[key, child], ...>>] (an object or an array,   *)
(* its keys in iteration order), [t |-> "val", v |-> value] or             *)
(* [t |-> "null"].                                                         *)
(***************************************************************************)
ObjOf(kids) == [v |-> Nothing, t |-> "obj", kids |-> kids]
ValOf(v) == [v |-> v, t |-> "val", kids |-> <<>>]
NullOf == [v |-> Nothing, t |-> "null", kids |-> <<>>]
Kid(key, child) == [key |-> key, child |-> child]

\* the (name, value) calls of setKey, in order
RECURSIVE createKeyValueFromObjectAt(_, _, _)
createKeyValueFromObjectAt(object, path, i) ==
  IF i > Len(object.kids) THEN <<>>
  ELSE LET key == object.kids[i].key
           value == object.kids[i].child
           rest == createKeyValueFromObjectAt(object, path, i + 1)
       IN IF value.t = "null" THEN rest
          ELSE IF value.t = "obj"
               THEN createKeyValueFromObjectAt(value, path \o key \o <<".">>, 1) \o rest
               ELSE <<[value |-> value.v, name |-> path \o key]>> \o rest

createKeyValueFromObject(object) == createKeyValueFromObjectAt(object, <<>>, 1)

\* setValues creating its records with the whole name as their only segment
RECURSIVE setValuesFromWholeName(_, _, _, _)
setValuesFromWholeName(d, keys, entries, i) ==
  IF i > Len(entries) THEN [data |-> d, order |-> keys]
  ELSE LET name == entries[i].name
           value == entries[i].value
       IN IF Has(d, name)
          THEN setValuesFromWholeName([d EXCEPT ![name].value = value], keys, entries, i + 1)
          ELSE setValuesFromWholeName(
                 Put(d, name, [value |-> value, validators |-> <<>>, errors |-> <<>>,
                               touched |-> FALSE,
                               ref |-> NoRef, path |-> <<[value |-> name, arrayIndex |-> FALSE]>>]),
                 Append(keys, name), entries, i + 1)

RECURSIVE setValuesFrom(_, _, _, _)
setValuesFrom(d, keys, entries, i) ==
  IF i > Len(entries) THEN [data |-> d, order |-> keys]
  ELSE LET name == entries[i].name
           value == entries[i].value
       IN IF Has(d, name)
          THEN setValuesFrom([d EXCEPT ![name].value = value], keys, entries, i + 1)
          ELSE setValuesFrom(
                 Put(d, name, [value |-> value, validators |-> <<>>, errors |-> <<>>,
                               touched |-> FALSE, ref |-> NoRef,
                               path |-> analyzeNamePath(name)]),
                 Append(keys, name), entries, i + 1)

setValues(values) ==
  LET r == setValuesFrom(data, order, createKeyValueFromObject(values), 1)
  IN /\ data' = r.data
     /\ order' = r.order
     /\ lastCall' = [Call("setValues", <<>>, "ok", Nothing, NoRef)
                       EXCEPT !.entries = createKeyValueFromObject(values)]
     /\ UNCHANGED <<initialData, initialOrder, initialValues, tasks>>

RECURSIVE setInitialDataFrom(_, _, _)
setInitialDataFrom(init, entries, i) ==
  IF i > Len(entries) THEN init
  ELSE setInitialDataFrom(Put(init, entries[i].name, entries[i].value), entries, i + 1)

\* the snapshot's keys after the same calls: a new name goes last
RECURSIVE setInitialOrderFrom(_, _, _)
setInitialOrderFrom(keys, entries, i) ==
  IF i > Len(entries) THEN keys
  ELSE setInitialOrderFrom(
         IF \E k \in 1..Len(keys) : keys[k] = entries[i].name THEN keys
         ELSE Append(keys, entries[i].name),
         entries, i + 1)

\* setInitialValues without `if (initialDirty) return`
setInitialValuesAlwaysSeeds(values) ==
  LET initialDirty == isDirty(data, initialData)
      entries == createKeyValueFromObject(values)
      r == setValuesFrom(data, order, entries, 1)
  IN /\ initialData' = setInitialDataFrom(initialData, entries, 1)
     /\ initialOrder' = setInitialOrderFrom(initialOrder, entries, 1)
     /\ data' = r.data
     /\ order' = r.order
     /\ lastCall' = [Call("setInitialValues", <<>>,
                          IF initialDirty THEN "dirty" ELSE "seeded", Nothing, NoRef)
                       EXCEPT !.entries = entries]
     /\ UNCHANGED <<initialValues, tasks>>

setInitialValues(values) ==
  LET initialDirty == isDirty(data, initialData)
      entries == createKeyValueFromObject(values)
      r == setValuesFrom(data, order, entries, 1)
  IN /\ initialData' = setInitialDataFrom(initialData, entries, 1)
     /\ initialOrder' = setInitialOrderFrom(initialOrder, entries, 1)
     /\ data' = IF initialDirty THEN data ELSE r.data
     /\ order' = IF initialDirty THEN order ELSE r.order
     /\ lastCall' = [Call("setInitialValues", <<>>,
                          IF initialDirty THEN "dirty" ELSE "seeded", Nothing, NoRef)
                       EXCEPT !.entries = entries]
     /\ UNCHANGED <<initialValues, tasks>>

(***************************************************************************)
(* Validation Pipeline.  A validate call is a task: it runs until it       *)
(* awaits a validator, other calls run while it is suspended, and it       *)
(* resumes with the validator's result.  A validator's result is decided   *)
(* by the arguments it was called with.                                    *)
(***************************************************************************)
Run(d, task) == [data |-> d, task |-> task]

Threw(m) == Run(m.data, [m.task EXCEPT !.st = "threw"])

\* the field the task is validating
Key(task) == task.names[task.pos]

\* element.focus(), recorded with the field it was asked for
Focus(task, name, ref) ==
  [task EXCEPT !.focused = Append(@, [name |-> name, ref |-> ref])]

\* the validator called without the field's value: validator(undefined),
\* which it takes as it takes the empty string
callValidatorWithoutValue(m, keys, i) ==
  LET name == Key(m.task)
  IN IF ~Has(m.data, name) THEN Threw(m)
     ELSE IF extractFieldsMember(m.data, keys, "value").threw THEN Threw(m)
     ELSE Run(m.data,
              [m.task EXCEPT !.i = i,
                             !.invoked = Append(@, m.task.validators[i]),
                             !.pending = RunValidator(m.task.validators[i], Str(""))])

\* `await validator(data[name].value, values())` for validator number i: both
\* arguments are read before the call suspends
callValidator(m, keys, i) ==
  LET name == Key(m.task)
  IN IF ~Has(m.data, name) THEN Threw(m)
     ELSE IF extractFieldsMember(m.data, keys, "value").threw THEN Threw(m)
     ELSE Run(m.data,
              [m.task EXCEPT !.i = i,
                             !.invoked = Append(@, m.task.validators[i]),
                             !.pending = RunValidator(m.task.validators[i],
                                                      m.data[name].value)])

RECURSIVE multipleFrom(_, _)

\* one validate(key, false) of a batch, as the batch saw it: the key, whether
\* it was registered, the error list the run collected, whether every
\* validator of the run had returned by then, and what the run returned
Collected(task, known, result) ==
  [name |-> Key(task), errors |-> IF known THEN task.errors ELSE <<>>,
   known |-> known,
   result |-> result,
   complete |-> known => Len(task.returned) = Len(task.validators)]

\* afterValidate with the batch's flag following the latest result
afterValidateLastWins(m, keys, known, result) ==
  LET task == [m.task EXCEPT !.collected = Append(@, Collected(m.task, known, result))]
  IN IF task.kind = "single"
     THEN Run(m.data, [task EXCEPT !.st = "done", !.ret = result])
     ELSE multipleFrom(Run(m.data, [task EXCEPT !.isValid = result, !.pos = task.pos + 1]),
                       keys)

\* afterValidate focusing every failing field that has an element
afterValidateFocusEach(m, keys, known, result) ==
  LET task == [m.task EXCEPT !.collected = Append(@, Collected(m.task, known, result))]
      key == Key(task)
  IN IF task.kind = "single"
     THEN Run(m.data, [task EXCEPT !.st = "done", !.ret = result])
     ELSE IF ~result
          THEN IF ~Has(m.data, key) THEN Threw(Run(m.data, [task EXCEPT !.isValid = FALSE]))
               ELSE IF m.data[key].ref # NoRef /\ task.focusOnError
                    THEN multipleFrom(
                           Run(m.data,
                               [Focus(task, key, m.data[key].ref)
                                  EXCEPT !.isValid = FALSE, !.alreadyFocusField = TRUE,
                                         !.pos = task.pos + 1]),
                           keys)
                    ELSE multipleFrom(
                           Run(m.data, [task EXCEPT !.isValid = FALSE, !.pos = task.pos + 1]),
                           keys)
          ELSE multipleFrom(Run(m.data, [task EXCEPT !.pos = task.pos + 1]), keys)

\* what follows `await validate(key, false)` in multiple, or the return of a
\* single validate; known: the key was registered when its run ended
afterValidate(m, keys, known, result) ==
  LET task == [m.task EXCEPT !.collected = Append(@, Collected(m.task, known, result))]
      key == Key(task)
  IN IF task.kind = "single"
     THEN Run(m.data, [task EXCEPT !.st = "done", !.ret = result])
     ELSE IF ~result /\ task.isValid
          THEN IF ~Has(m.data, key) THEN Threw(Run(m.data, [task EXCEPT !.isValid = FALSE]))
               ELSE IF ~task.alreadyFocusField /\ m.data[key].ref # NoRef /\ task.focusOnError
                    THEN multipleFrom(
                           Run(m.data,
                               [Focus(task, key, m.data[key].ref)
                                  EXCEPT !.isValid = FALSE, !.alreadyFocusField = TRUE,
                                         !.pos = task.pos + 1]),
                           keys)
                    ELSE multipleFrom(
                           Run(m.data, [task EXCEPT !.isValid = FALSE, !.pos = task.pos + 1]),
                           keys)
          ELSE multipleFrom(Run(m.data, [task EXCEPT !.pos = task.pos + 1]), keys)

\* the end of validate(name) adding its list to the errors that are there
finishValidateAppends(m, keys) ==
  LET name == Key(m.task)
      errors == m.task.errors
      focusOnError == m.task.kind = "single" /\ m.task.focusOnError
  IN IF ~Has(m.data, name) THEN Threw(m)
     ELSE afterValidate(
            Run([m.data EXCEPT ![name].errors = @ \o errors],
                IF Len(errors) > 0 /\ focusOnError /\ m.data[name].ref # NoRef
                THEN Focus(m.task, name, m.data[name].ref)
                ELSE m.task),
            keys, TRUE, Len(errors) = 0)

\* the end of validate(name): focus, replace the errors, return
finishValidate(m, keys) ==
  LET name == Key(m.task)
      errors == m.task.errors
      focusOnError == m.task.kind = "single" /\ m.task.focusOnError
  IN IF ~Has(m.data, name) THEN Threw(m)
     ELSE afterValidate(
            Run([m.data EXCEPT ![name].errors = errors],
                IF Len(errors) > 0 /\ focusOnError /\ m.data[name].ref # NoRef
                THEN Focus(m.task, name, m.data[name].ref)
                ELSE m.task),
            keys, TRUE, Len(errors) = 0)

\* the validator awaited has resolved; the run stops at the first message
resumeValidateShortCircuit(m, keys) ==
  LET error == m.task.pending
      task == [m.task EXCEPT !.returned = Append(@, error),
                             !.errors = IF error = Undefined THEN @ ELSE Append(@, error)]
  IN IF task.i < Len(task.validators) /\ error = Undefined
     THEN callValidator(Run(m.data, task), keys, task.i + 1)
     ELSE finishValidate(Run(m.data, task), keys)

\* validate(name) without its first line: a name that is not registered has
\* no validator to fail
validateOneUnguarded(m, keys) ==
  LET name == Key(m.task)
  IN IF ~Has(m.data, name) THEN afterValidate(m, keys, FALSE, TRUE)
     ELSE LET validators == m.data[name].validators
              started == Run(m.data,
                             [m.task EXCEPT !.validators = validators, !.i = 0,
                                            !.errors = <<>>, !.returned = <<>>,
                                            !.invoked = <<>>, !.pending = Undefined])
          IN IF Len(validators) = 0 THEN finishValidate(started, keys)
             ELSE callValidator(started, keys, 1)

\* validate(name) from its first line to its first await or its return
validateOne(m, keys) ==
  LET name == Key(m.task)
  IN IF ~Has(m.data, name) THEN afterValidate(m, keys, FALSE, FALSE)
     ELSE LET validators == m.data[name].validators
              started == Run(m.data,
                             [m.task EXCEPT !.validators = validators, !.i = 0,
                                            !.errors = <<>>, !.returned = <<>>,
                                            !.invoked = <<>>, !.pending = Undefined])
          IN IF Len(validators) = 0 THEN finishValidate(started, keys)
             ELSE callValidator(started, keys, 1)

\* the loop of multiple from names[pos] on, to the next await or the return
multipleFrom(m, keys) ==
  IF m.task.pos > Len(m.task.names)
  THEN Run(m.data, [m.task EXCEPT !.st = "done", !.ret = m.task.isValid])
  ELSE validateOne(m, keys)

\* the validator awaited has resolved; the list so far is written to the
\* field after every validator
resumeValidateWritesEach(m, keys) ==
  LET error == m.task.pending
      task == [m.task EXCEPT !.returned = Append(@, error),
                             !.errors = IF error = Undefined THEN @ ELSE Append(@, error)]
      name == Key(task)
      d == IF Has(m.data, name) THEN [m.data EXCEPT ![name].errors = task.errors]
           ELSE m.data
  IN IF task.i < Len(task.validators)
     THEN callValidator(Run(d, task), keys, task.i + 1)
     ELSE finishValidate(Run(d, task), keys)

\* the validator awaited has resolved: keep its message, go on
resumeValidate(m, keys) ==
  LET error == m.task.pending
      task == [m.task EXCEPT !.returned = Append(@, error),
                             !.errors = IF error = Undefined THEN @ ELSE Append(@, error)]
  IN IF task.i < Len(task.validators)
     THEN callValidator(Run(m.data, task), keys, task.i + 1)
     ELSE finishValidate(Run(m.data, task), keys)

\* a step of validate call t: a call that returned or threw is kept here with
\* what it collected, and its slot is free again
TaskCall(t, task) ==
  [name |-> IF task.kind = "single" THEN task.names[1] ELSE <<>>,
   focused |-> NoRef,
   op |-> "validate",
   out |-> CASE task.st = "run" -> "pending"
             [] task.st = "threw" -> "TypeError"
             [] OTHER -> IF task.ret THEN "true" ELSE "false",
   wrote |-> Nothing,
   task |-> t,
   run |-> IF task.st = "run" THEN IdleTask ELSE task,
   args |-> NoArgs, target |-> NoArg, callback |-> NotCalled, entries |-> <<>>]

\* handleSubmit with the test on validate's result left out
submitCallbackAlways(m, keys) ==
  IF m.task.st # "done" THEN NotCalled
  ELSE Callback(TRUE, extractFieldsMember(m.data, keys, "value").object)

\* if (!await validate(undefined, true)) return;
\* callback(extractFieldsMember("value"))
submitCallback(m, keys) ==
  IF m.task.st # "done" \/ ~m.task.ret THEN NotCalled
  ELSE Callback(TRUE, extractFieldsMember(m.data, keys, "value").object)

\* a step of the validate call t, which is handleSubmit's when the task says so
StepCall(t, m, keys) ==
  IF m.task.submit
  THEN [TaskCall(t, m.task) EXCEPT !.op = "handleSubmit",
                                   !.callback = submitCallback(m, keys)]
  ELSE TaskCall(t, m.task)

Slot(task) == IF task.st = "run" THEN task ELSE IdleTask

\* a list of names from its last to its first
RECURSIVE Reversed(_)
Reversed(names) ==
  IF names = <<>> THEN <<>> ELSE Append(Reversed(Tail(names)), Head(names))

\* validate(nameOrNames, focusOnError) going through its names from the last
validateStartReversed(d, keys, arg, focusOnError) ==
  LET all == arg.kind = "omitted" \/ (arg.kind = "many" /\ Len(arg.many) = 0)
      task == [IdleTask EXCEPT
                 !.st = "run",
                 !.kind = IF arg.kind = "one" THEN "single" ELSE "batch",
                 !.focusOnError = focusOnError,
                 !.names = IF all THEN Reversed(keys)
                           ELSE IF arg.kind = "many" THEN Reversed(arg.many)
                           ELSE <<arg.one>>,
                 !.pos = 1]
  IN multipleFrom(Run(d, task), keys)

\* validate(nameOrNames, focusOnError) from its call to its first await or
\* its return, on the registry d with the keys in the order keys
validateStart(d, keys, arg, focusOnError) ==
  LET all == arg.kind = "omitted" \/ (arg.kind = "many" /\ Len(arg.many) = 0)
      task == [IdleTask EXCEPT
                 !.st = "run",
                 !.kind = IF arg.kind = "one" THEN "single" ELSE "batch",
                 !.focusOnError = focusOnError,
                 !.names = IF all THEN keys
                           ELSE IF arg.kind = "many" THEN arg.many ELSE <<arg.one>>,
                 !.pos = 1]
  IN multipleFrom(Run(d, task), keys)

\* validate(nameOrNames, focusOnError) is called
validate(t, arg, focusOnError) ==
  LET m == validateStart(data, order, arg, focusOnError)
  IN /\ tasks[t].st # "run"
     /\ data' = m.data
     /\ tasks' = [tasks EXCEPT ![t] = Slot(m.task)]
     /\ lastCall' = [TaskCall(t, m.task) EXCEPT !.target = arg]
     /\ UNCHANGED <<order, initialData, initialOrder, initialValues>>

\* the handler handleSubmit(callback) returns is called with a submit event:
\* validate(undefined, true), then the callback
handleSubmit(t) ==
  LET v == validateStart(data, order, NoArg, TRUE)
      m == Run(v.data, [v.task EXCEPT !.submit = TRUE])
  IN /\ tasks[t].st # "run"
     /\ data' = m.data
     /\ tasks' = [tasks EXCEPT ![t] = Slot(m.task)]
     /\ lastCall' = StepCall(t, m, order)
     /\ UNCHANGED <<order, initialData, initialOrder, initialValues>>

\* an await that gives up on a promise that does not settle and goes on
SettlesAfterTimeout(task) == TRUE

\* `await validator(...)`: the call resumes when the promise has settled,
\* and there is nothing else that resumes it
Settles(task) == task.pending # Hung

\* the validator a suspended validate awaits resolves
validatorResolves(t) ==
  LET m == resumeValidate(Run(data, tasks[t]), order)
  IN /\ tasks[t].st = "run"
     /\ Settles(tasks[t])
     /\ data' = m.data
     /\ tasks' = [tasks EXCEPT ![t] = Slot(m.task)]
     /\ lastCall' = StepCall(t, m, order)
     /\ UNCHANGED <<order, initialData, initialOrder, initialValues>>

(***************************************************************************)
(* Array Sub-controller (createArrayController over createController).     *)
(* Array elements are strings; a hole left by swap is Undefined.  The      *)
(* indices are 0-based, as in the code.                                    *)
(***************************************************************************)
\* const value = createMemo(() => data[name]?.value ?? "")
controllerValue(d, name) == IF Has(d, name) THEN d[name].value ELSE Str("")

\* the outcome of building the new array: it threw, or the array
Built(a) == [value |-> Arr(a), threw |-> FALSE]
BuildThrew == [value |-> Nothing, threw |-> TRUE]

\* [...value(), item]: an array is copied, a string is spread into its
\* characters, a boolean or a number is not iterable
arrayAdd(value, item) ==
  CASE value.k = "arr" -> Built(Append(value.a, item))
    [] value.k = "str" -> Built((IF value.s = "" THEN <<>> ELSE <<value.s>>) \o <<item>>)
    [] OTHER -> BuildThrew

\* a.filter((_, i) => i != index)
RECURSIVE filterNotIndex(_, _, _)
filterNotIndex(a, index, i) ==
  IF i >= Len(a) THEN <<>>
  ELSE (IF i # index THEN <<a[i + 1]>> ELSE <<>>) \o filterNotIndex(a, index, i + 1)

arrayRemove(value, index) ==
  IF value.k = "arr" THEN Built(filterNotIndex(value.a, index, 0)) ELSE BuildThrew

\* a.map((item, i) => i == index ? newItem : item)
arraySet(value, index, newItem) ==
  IF value.k = "arr"
  THEN Built([i \in 1..Len(value.a) |-> IF i - 1 = index THEN newItem ELSE value.a[i]])
  ELSE BuildThrew

\* a[i], undefined past the end
ItemAt(a, i) == IF i < Len(a) THEN a[i + 1] ELSE Undefined

\* a[i] = x on an array: an index past the end lengthens it, leaving holes
AssignItem(a, i, x) ==
  [k \in 1..(IF i + 1 > Len(a) THEN i + 1 ELSE Len(a)) |->
     IF k = i + 1 THEN x ELSE IF k <= Len(a) THEN a[k] ELSE Undefined]

\* swap whose second assignment reads the copy the first one has changed
arraySwapReadsCopy(value, a, b) ==
  IF value.k = "arr"
  THEN LET first == AssignItem(value.a, a, ItemAt(value.a, b))
       IN Built(AssignItem(first, b, ItemAt(first, a)))
  ELSE BuildThrew

\* newArray = value().concat(); newArray[a] = value()[b]; newArray[b] = value()[a]
arraySwap(value, a, b) ==
  IF value.k = "arr"
  THEN Built(AssignItem(AssignItem(value.a, a, ItemAt(value.a, b)), b, ItemAt(value.a, a)))
  ELSE BuildThrew

\* change(newValue): setField(name, newValue, true), then validate(name),
\* which runs to its first await; built is what the caller computed from
\* value(), and nothing happens when that threw
change(t, op, name, built, args) ==
  IF built.threw
  THEN /\ lastCall' = [Call(op, name, "TypeError", Nothing, NoRef) EXCEPT !.args = args]
       /\ UNCHANGED <<data, order, initialData, initialOrder, initialValues, tasks>>
  ELSE LET m == validateStart(setFieldData(data, name, built.value), order,
                              OneName(name), FALSE)
       IN /\ tasks[t].st # "run"
          /\ data' = m.data
          /\ tasks' = [tasks EXCEPT ![t] = Slot(m.task)]
          /\ lastCall' = [TaskCall(t, m.task) EXCEPT
                            !.op = op, !.name = name, !.args = args,
                            !.wrote = setFieldWrote(data, name, built.value, TRUE)]
          /\ UNCHANGED <<order, initialData, initialOrder, initialValues>>

\* fieldRegister's onInput: setField(name, value, false), then validate(name),
\* which runs to its first await
onInput(t, name, value) ==
  LET m == validateStart(setFieldData(data, name, value), order, OneName(name), FALSE)
  IN /\ tasks[t].st # "run"
     /\ data' = m.data
     /\ tasks' = [tasks EXCEPT ![t] = Slot(m.task)]
     /\ lastCall' = [TaskCall(t, m.task) EXCEPT
                       !.op = "onInput", !.name = name, !.args = Args(value, 0, 0)]
     /\ UNCHANGED <<order, initialData, initialOrder, initialValues>>

add(t, name, item) ==
  change(t, "add", name, arrayAdd(controllerValue(data, name), item), Args(Str(item), 0, 0))

remove(t, name, index) ==
  change(t, "remove", name, arrayRemove(controllerValue(data, name), index),
         Args(Nothing, index, 0))

set(t, name, index, newItem) ==
  change(t, "set", name, arraySet(controllerValue(data, name), index, newItem),
         Args(Str(newItem), index, 0))

swap(t, name, a, b) ==
  change(t, "swap", name, arraySwap(controllerValue(data, name), a, b), Args(Nothing, a, b))

(***************************************************************************)
(* reset                                                                   *)
(***************************************************************************)
\* for (const key in initialData) setData(key, "value", initialData[key]):
\* setData on a key the store does not hold reads a member of undefined and
\* throws; what was written before stays written
RECURSIVE resetFromSnapshot(_, _, _, _)
resetFromSnapshot(d, init, keys, i) ==
  IF i > Len(keys) THEN [data |-> d, threw |-> FALSE]
  ELSE IF ~Has(d, keys[i]) THEN [data |-> d, threw |-> TRUE]
  ELSE resetFromSnapshot([d EXCEPT ![keys[i]].value = init[keys[i]]], init, keys, i + 1)

\* for (const key in data) setData(key, "value", "")
resetToEmpty(d) == [key \in DOMAIN d |-> [d[key] EXCEPT !.value = Str("")]]

\* reset(): with a snapshot, its values are written and validate() is called,
\* which runs to its first await; without one, every value becomes "" and
\* clearErrors() empties every list
reset(t) ==
  IF Len(initialOrder) > 0
  THEN LET r == resetFromSnapshot(data, initialData, initialOrder, 1)
           m == validateStart(r.data, order, NoArg, FALSE)
       IN IF r.threw
          THEN /\ data' = r.data
               /\ lastCall' = Call("reset", <<>>, "TypeError", Nothing, NoRef)
               /\ UNCHANGED <<order, initialData, initialOrder, initialValues, tasks>>
          ELSE /\ tasks[t].st # "run"
               /\ data' = m.data
               /\ tasks' = [tasks EXCEPT ![t] = Slot(m.task)]
               /\ lastCall' = [TaskCall(t, m.task) EXCEPT !.op = "reset"]
               /\ UNCHANGED <<order, initialData, initialOrder, initialValues>>
  ELSE /\ data' = clearEach(resetToEmpty(data), order, 1).data
       /\ lastCall' = Call("reset", <<>>, "ok", Nothing, NoRef)
       /\ UNCHANGED <<order, initialData, initialOrder, initialValues, tasks>>

Init ==
  /\ data = <<>>
  /\ order = <<>>
  /\ initialData = <<>>
  /\ initialOrder = <<>>
  /\ initialValues = <<>>
  /\ tasks = [t \in Tasks |-> IdleTask]
  /\ lastCall = Call("createForm", <<>>, "ok", Nothing, NoRef)

(***************************************************************************)
(* The registry under its synchronous operations.                          *)
(***************************************************************************)
\* arguments of clearErrors: omitted, one name, or a list of names
ClearArgs ==
  {NoArg} \cup {OneName(n) : n \in Names}
          \cup {ManyNames(l) : l \in {<<>>, <<NameAB>>, <<NameI0, NameAB>>}}

Next ==
  \/ \E n \in Names : touch(n)
  \/ \E n \in Names : setFieldRef(n, ElemOf(n))
  \/ \E n \in Names, x \in ExternalErrors, f \in BOOLEAN : addError(n, x, f)
  \/ \E n \in Names, v \in {Str(""), Str("x")}, u \in BOOLEAN : setField(n, v, u)
  \/ \E n \in Names, vs \in ValidatorLists, d \in {Str(""), Str("x")}, b \in BOOLEAN :
       addField(n, vs, d, IF b THEN ElemOf(n) ELSE NoRef)
  \/ \E n \in Names : removeField(n)
  \/ \E arg \in ClearArgs : clearErrors(arg)

Spec == Init /\ [][Next]_vars

(***************************************************************************)
(* The registry with validate(name) calls in flight.                       *)
(***************************************************************************)
NextV ==
  \/ \E n \in Names : touch(n)
  \/ \E n \in Names, v \in {Str(""), Str("x")} : setField(n, v, FALSE)
  \/ \E n \in Names, vs \in ValidatorLists : addField(n, vs, Str(""), ElemOf(n))
  \/ \E t \in Tasks, n \in Names, f \in BOOLEAN : validate(t, OneName(n), f)
  \/ \E t \in Tasks : validatorResolves(t)

SpecV == Init /\ [][NextV]_vars

(***************************************************************************)
(* The registry with batch validate calls in flight.                       *)
(***************************************************************************)
BatchArgs ==
  {NoArg, ManyNames(<<NameI0, NameAB>>)}

NextB ==
  \/ \E n \in Names, v \in {Str(""), Str("x")} : setField(n, v, FALSE)
  \/ \E n \in Names, vs \in {<<"required">>, <<"failA", "failB">>}, b \in BOOLEAN :
       addField(n, vs, Str(""), IF b THEN ElemOf(n) ELSE NoRef)
  \/ \E t \in Tasks, arg \in BatchArgs, f \in BOOLEAN : validate(t, arg, f)
  \/ \E t \in Tasks : validatorResolves(t)

SpecB == Init /\ [][NextB]_vars

(***************************************************************************)
(* The registry with submits in flight.                                    *)
(***************************************************************************)
NextS ==
  \/ \E n \in Names, v \in {Str(""), Str("x")} : setField(n, v, FALSE)
  \/ \E n \in Names, vs \in {<<"required">>, <<"failA", "failB">>}, b \in BOOLEAN :
       addField(n, vs, Str(""), IF b THEN ElemOf(n) ELSE NoRef)
  \/ \E t \in Tasks : handleSubmit(t)
  \/ \E t \in Tasks : validatorResolves(t)

SpecS == Init /\ [][NextS]_vars

(***************************************************************************)
(* The registry and the InitialSnapshot: fields written by input handlers  *)
(* and by setValues, snapshots taken by setInitialValues.                  *)
(***************************************************************************)
\* { a: { b: v } }, { i: [v] } and { a: { b: null }, i: [v] }
ObjectAB(v) == ObjOf(<<Kid(<<"a">>, ObjOf(<<Kid(<<"b">>, v)>>))>>)
ObjectI(v) == ObjOf(<<Kid(<<"i">>, ObjOf(<<Kid(<<"0">>, v)>>))>>)
ObjectBoth(v, w) ==
  ObjOf(<<Kid(<<"a">>, ObjOf(<<Kid(<<"b">>, v)>>)), Kid(<<"i">>, ObjOf(<<Kid(<<"0">>, w)>>))>>)

InputObjects ==
  {ObjectAB(ValOf(v)) : v \in {Str(""), Str("x")}}
    \cup {ObjectI(ValOf(Str("x"))), ObjectBoth(NullOf, ValOf(Str("x")))}

NextD ==
  \/ \E n \in Names, d \in {Str(""), Str("x")} : addField(n, <<>>, d, NoRef)
  \/ \E n \in Names, v \in Values : setField(n, v, FALSE)
  \/ \E values \in InputObjects : setValues(values)
  \/ \E values \in InputObjects : setInitialValues(values)

SpecD == Init /\ [][NextD]_vars

(***************************************************************************)
(* The registry under names that share segments: "a", "a.b", "a.c",        *)
(* "i.0" and "i.1", each registered with a value of its own.               *)
(***************************************************************************)
NameA == <<"a">>
NameI1 == <<"i", ".", "1">>
PathNames == {NameA, NameAB, NameAC, NameI0, NameI1}

DefaultOf(name) ==
  CASE name = NameA -> Str("v")
    [] name = NameAB -> Str("w")
    [] name = NameAC -> Str("x")
    [] name = NameI0 -> Str("y")
    [] OTHER -> Str("z")

NextP ==
  \/ \E n \in PathNames : addField(n, <<>>, DefaultOf(n), NoRef)
  \/ \E n \in PathNames : addError(n, "E", FALSE)

SpecP == Init /\ [][NextP]_vars

(***************************************************************************)
(* An array field "t" under its sub-controller, beside the field "a.b".    *)
(***************************************************************************)
NameT == <<"t">>
Items == {"a", "b", "c"}

\* longest array the model lets add build
MaxItems == 3
Indices == 0..(MaxItems - 1)

NextA ==
  \/ \E vs \in {<<>>, <<"required">>} : addField(NameT, vs, Arr(<<>>), NoRef)
  \/ addField(NameAB, <<"required">>, Str(""), NoRef)
  \/ \E t \in Tasks, item \in Items :
       /\ controllerValue(data, NameT).k = "arr"
            => Len(controllerValue(data, NameT).a) < MaxItems
       /\ add(t, NameT, item)
  \/ \E t \in Tasks, index \in Indices : remove(t, NameT, index)
  \/ \E t \in Tasks, index \in Indices, item \in Items : set(t, NameT, index, item)
  \/ \E t \in Tasks, a, b \in Indices : swap(t, NameT, a, b)
  \/ \E t \in Tasks : validatorResolves(t)

SpecA == Init /\ [][NextA]_vars

(***************************************************************************)
(* The registry of the oldest draft (src/src/index.tsx).                   *)
(***************************************************************************)
InitIndex ==
  /\ data = <<>>
  /\ order = <<>>
  /\ initialData = <<>>
  /\ initialOrder = <<>>
  /\ initialValues \in {<<>>, [n \in {NameAB} |-> Str("x")]}
  /\ tasks = [t \in Tasks |-> IdleTask]
  /\ lastCall = Call("createForm", <<>>, "ok", Nothing, NoRef)

\* the elements addField is handed: none, a text input showing "" or "x", a
\* checkbox
ElementsOf(name) ==
  {NoElement, Element(ElemOf(name), "text", Str(""), FALSE),
   Element(ElemOf(name), "text", Str("x"), FALSE),
   Element(ElemOf(name), "checkbox", Str("on"), TRUE)}

NextIndex ==
  \/ \E n \in Names : touch(n)
  \/ \E n \in Names, x \in ExternalErrors : addError(n, x, FALSE)
  \/ \E n \in Names, v \in {Str(""), Str("x")}, u \in BOOLEAN : setField(n, v, u)
  \/ \E n \in Names, vs \in {<<>>, <<"required">>}, d \in {Str(""), Str("x")} :
       \E element \in ElementsOf(n) : addFieldIndex(n, vs, d, element)
  \/ \E n \in Names : removeFieldIndex(n)

SpecIndex == InitIndex /\ [][NextIndex]_vars

(***************************************************************************)
(* The oldest draft's registry with validate(name) calls in flight: fields *)
(* are removed (delete data[name]) and registered again while a run is     *)
(* suspended in a validator.                                               *)
(***************************************************************************)
NextR ==
  \/ \E n \in Names, vs \in {<<"required">>, <<"failA", "failB">>}, b \in BOOLEAN :
       addFieldIndex(n, vs, Str(""),
                     IF b THEN Element(ElemOf(n), "text", Str("x"), FALSE) ELSE NoElement)
  \/ \E n \in Names : removeFieldIndex(n)
  \/ \E t \in Tasks, n \in Names, f \in BOOLEAN : validate(t, OneName(n), f)
  \/ \E t \in Tasks : validatorResolves(t)

SpecR == InitIndex /\ [][NextR]_vars

(***************************************************************************)
(* Fields bound with fieldRegister: every input event writes the value and *)
(* starts a validation, so that several runs of one field are in flight at *)
(* once.  There is one more validate call here than elsewhere.             *)
(***************************************************************************)
ManyTasks == 1..(MaxTasks + 1)

InitW ==
  /\ data = <<>>
  /\ order = <<>>
  /\ initialData = <<>>
  /\ initialOrder = <<>>
  /\ initialValues = <<>>
  /\ tasks = [t \in ManyTasks |-> IdleTask]
  /\ lastCall = Call("createForm", <<>>, "ok", Nothing, NoRef)

NextW ==
  \/ \E n \in Names, vs \in {<<"required">>, <<"failA", "failB">>} :
       addField(n, vs, Str(""), ElemOf(n))
  \/ \E t \in ManyTasks, n \in Names, v \in {Str(""), Str("x")} : onInput(t, n, v)
  \/ \E t \in ManyTasks : validatorResolves(t)

SpecW == InitW /\ [][NextW]_vars

(***************************************************************************)
(* The registry with every writer of error lists: validate of one field    *)
(* and of all, addError, clearErrors and registration.                     *)
(***************************************************************************)
NextE ==
  \/ \E n \in Names, vs \in {<<"required">>, <<"failA", "failB">>} :
       addField(n, vs, Str(""), NoRef)
  \/ \E n \in Names : setField(n, Str("x"), FALSE)
  \/ \E n \in Names, x \in ExternalErrors : addError(n, x, FALSE)
  \/ \E arg \in {NoArg, OneName(NameAB)} : clearErrors(arg)
  \/ \E t \in Tasks, arg \in {NoArg, OneName(NameAB), OneName(NameI0)} :
       validate(t, arg, FALSE)
  \/ \E t \in Tasks : validatorResolves(t)

SpecE == Init /\ [][NextE]_vars

(***************************************************************************)
(* The registry with submits in flight while the form is being filled in:  *)
(* fields are registered with a default value, written, given outside      *)
(* errors, and validated one by one by the controls' blur handlers.        *)
(***************************************************************************)
NextU ==
  \/ \E n \in Names, d \in {Str(""), Str("x")} : addField(n, <<"required">>, d, NoRef)
  \/ \E n \in Names, v \in {Str(""), Str("x")} : setField(n, v, FALSE)
  \/ \E n \in Names, x \in ExternalErrors : addError(n, x, FALSE)
  \/ \E t \in ManyTasks : handleSubmit(t)
  \/ \E t \in ManyTasks, n \in Names : validate(t, OneName(n), FALSE)
  \/ \E t \in ManyTasks : validatorResolves(t)

SpecU == InitW /\ [][NextU]_vars

(***************************************************************************)
(* The registry with batch validate calls in flight and no element bound:  *)
(* fields are registered, and registered again, while a batch is           *)
(* suspended.                                                              *)
(***************************************************************************)
NextQ ==
  \/ \E n \in Names, vs \in {<<"required">>, <<"failA", "failB">>}, d \in {Str(""), Str("x")} :
       addField(n, vs, d, NoRef)
  \/ \E t \in Tasks, arg \in BatchArgs : validate(t, arg, FALSE)
  \/ \E t \in Tasks : validatorResolves(t)

SpecQ == Init /\ [][NextQ]_vars

(***************************************************************************)
(* The registry with validate calls whose validators may never resolve.    *)
(* A validator that resolves does so eventually: the promise it returned   *)
(* settles, and the event loop then resumes the call that awaits it.  This *)
(* is weak fairness of validatorResolves(t), written out: the action is    *)
(* enabled exactly when call t awaits a promise that settles, and its      *)
(* steps are the steps of call t from a suspended state.                   *)
(***************************************************************************)
NextL ==
  \/ \E n \in Names, vs \in {<<"required">>, <<"failA", "hang">>, <<"failA", "failB">>},
        d \in {Str(""), Str("x")} :
       addField(n, vs, d, NoRef)
  \/ \E n \in Names : setField(n, Str("x"), FALSE)
  \/ \E t \in Tasks, arg \in {NoArg, OneName(NameAB), ManyNames(<<NameI0, NameAB>>)} :
       validate(t, arg, FALSE)
  \/ \E t \in Tasks : validatorResolves(t)

\* ENABLED <<validatorResolves(t)>>_vars
Awaited(t) == tasks[t].st = "run" /\ Settles(tasks[t])

\* <<validatorResolves(t)>>_vars
Resumed(t) == tasks[t].st = "run" /\ lastCall'.task = t

\* WF_vars(validatorResolves(t))
EventLoop(t) == []<>(~Awaited(t)) \/ []<><<Resumed(t)>>_vars

SpecL == Init /\ [][NextL]_vars /\ \A t \in Tasks : EventLoop(t)

(***************************************************************************)
(* A field with two validators that read its value, written while its      *)
(* validate(name) runs are suspended between the two.                      *)
(***************************************************************************)
\* the values the field is given
WrittenValues == {Str(""), Str("x")}

NextM ==
  \/ \E n \in Names, vs \in {<<"required", "empty">>, <<"empty", "required">>},
        d \in WrittenValues :
       addField(n, vs, d, NoRef)
  \/ \E n \in Names, v \in WrittenValues : setField(n, v, FALSE)
  \/ \E t \in Tasks, n \in Names : validate(t, OneName(n), FALSE)
  \/ \E t \in Tasks : validatorResolves(t)

SpecM == Init /\ [][NextM]_vars

(***************************************************************************)
(* The registry and the InitialSnapshot under reset: fields are            *)
(* registered and written, snapshots are taken, and the form is reset.     *)
(***************************************************************************)
NextT ==
  \/ \E n \in Names, vs \in {<<>>, <<"required">>}, d \in WrittenValues :
       addField(n, vs, d, NoRef)
  \/ \E n \in Names, v \in WrittenValues : setField(n, v, FALSE)
  \/ \E values \in InputObjects : setInitialValues(values)
  \/ \E t \in Tasks : reset(t)
  \/ \E t \in Tasks : validatorResolves(t)

SpecT == Init /\ [][NextT]_vars

(***************************************************************************)
(* Claims                                                                  *)
(***************************************************************************)
\* the names a call of addField, made on a registered name, was made with
ReRegistered(n) == lastCall'.op = "addField" /\ lastCall'.name = n /\ Has(data, n)

\* C1: idempotent re-registration: addField on a registered name leaves the
\* field's value as it was (not the default handed in) and, when an element
\* is handed in, that value is what is written onto the element.  Stated of
\* every step of the registry; the oldest draft's addField breaks it.
C1_ReRegistrationKeepsValue ==
  [][\A n \in Names :
       ReRegistered(n) =>
         /\ data'[n].value = data[n].value
         /\ data'[n].ref # NoRef => lastCall'.wrote = data[n].value]_vars

\* C2: addField on a registered name leaves the field's touched flag and its
\* error list as they were.
C2_ReRegistrationKeepsTouchedAndErrors ==
  [][\A n \in Names :
       ReRegistered(n) =>
         /\ data'[n].touched = data[n].touched
         /\ data'[n].errors = data[n].errors]_vars

\* the calls that take one field name and are guarded by an existence check
GuardedOps == {"touch", "setField", "addError", "setFieldRef", "removeField"}

\* C3: unknown-name no-op: touch, setField, addError, setFieldRef and
\* removeField on a name that is not registered do not throw and leave the
\* set of registered names and every member of every field as they were.
C3_UnknownNameNoOp ==
  [][(lastCall'.op \in GuardedOps /\ ~Has(data, lastCall'.name)) =>
       /\ lastCall'.out = "ok"
       /\ data' = data
       /\ order' = order]_vars

\* C3 happens: a guarded call on an unregistered name was made while another
\* field, with errors and a validator list of its own, is registered
C3_Witness ==
  /\ lastCall.op = "setField"
  /\ ~Has(data, lastCall.name)
  /\ \E n \in DOMAIN data : data[n].errors # <<>> /\ data[n].validators # <<>>

\* the validate call that returned in the step into this state
Returned(kind) ==
  lastCall.op = "validate" /\ lastCall.run.st = "done" /\ lastCall.run.kind = kind

\* the messages among a run's validator results, in order
RECURSIVE Messages(_)
Messages(returned) ==
  IF returned = <<>> THEN <<>>
  ELSE IF Head(returned) = Undefined THEN Messages(Tail(returned))
  ELSE <<Head(returned)>> \o Messages(Tail(returned))

\* C4: validation accumulation: when validate(name) of a registered field
\* returns, every validator of the list the run started with was invoked, in
\* list order, the field's errors are the messages the validators returned,
\* in that order, and the call returned false exactly when there is one.
C4_ValidationAccumulates ==
  (Returned("single") /\ lastCall.run.collected[1].known) =>
    LET run == lastCall.run
    IN /\ run.invoked = run.validators
       /\ Len(run.returned) = Len(run.validators)
       /\ data[lastCall.name].errors = Messages(run.returned)
       /\ (lastCall.out = "false") <=> (data[lastCall.name].errors # <<>>)

\* C4 happens: two validators that always fail, with "A" and with "B"
C4_Witness ==
  /\ Returned("single")
  /\ lastCall.run.validators = <<"failA", "failB">>
  /\ data[lastCall.name].errors = <<"A", "B">>
  /\ lastCall.out = "false"

\* C5: a batch validate that returns gives true exactly when every field of
\* the batch passed (was registered and collected no error), and by then
\* every name of the batch has been validated, in order, whatever failed
\* before it.
C5_BatchResult ==
  Returned("batch") =>
    LET run == lastCall.run
    IN /\ Len(run.collected) = Len(run.names)
       /\ \A i \in 1..Len(run.names) :
            /\ run.collected[i].name = run.names[i]
            /\ run.collected[i].result =
                 (run.collected[i].known /\ run.collected[i].errors = <<>>)
       /\ (lastCall.out = "true") <=>
            \A i \in 1..Len(run.names) :
              run.collected[i].known /\ run.collected[i].errors = <<>>

\* C5 happens: the first field of a batch failed, the second was validated
\* all the same and passed, and the batch returned false
C5_Witness ==
  /\ Returned("batch")
  /\ Len(lastCall.run.names) = 2
  /\ lastCall.run.collected[1].errors # <<>>
  /\ lastCall.run.collected[2].known
  /\ lastCall.run.collected[2].errors = <<>>
  /\ lastCall.out = "false"

\* the first failing field among those a batch has validated, or 0
FirstFailed(collected) ==
  IF \E i \in 1..Len(collected) : ~collected[i].result
  THEN CHOOSE i \in 1..Len(collected) :
         ~collected[i].result /\ \A j \in 1..(i - 1) : collected[j].result
  ELSE 0

FocusOnce(run) ==
  /\ Len(run.focused) <= 1
  /\ ~run.focusOnError => run.focused = <<>>
  /\ run.focused # <<>> =>
       /\ FirstFailed(run.collected) > 0
       /\ run.focused[1].name = run.collected[FirstFailed(run.collected)].name
       /\ run.focused[1].ref = ElemOf(run.focused[1].name)

\* C6: batch focus-once: a batch validate issues at most one focus request,
\* to the bound element of the first field of the batch that failed, and none
\* without focusOnError; this holds while the batch is suspended and when it
\* has returned.
C6_BatchFocusOnce ==
  /\ \A t \in Tasks : tasks[t].kind = "batch" => FocusOnce(tasks[t])
  /\ Returned("batch") => FocusOnce(lastCall.run)

\* C6 happens: both fields of a batch failed, both have an element, and the
\* one focus request went to the first
C6_Witness ==
  /\ Returned("batch")
  /\ lastCall.run.focusOnError
  /\ Len(lastCall.run.names) = 2
  /\ \A i \in 1..2 : ~lastCall.run.collected[i].result
  /\ \A n \in DOMAIN data : data[n].ref # NoRef
  /\ lastCall.run.focused =
       <<[name |-> lastCall.run.names[1], ref |-> ElemOf(lastCall.run.names[1])]>>

\* C7: validate(name) with a name that is not registered returns false, runs
\* no validator, focuses nothing and leaves the registry as it was.
C7_UnknownNameFails ==
  [][(lastCall'.op = "validate" /\ lastCall'.run.kind = "single"
        /\ lastCall'.name # <<>> /\ ~Has(data, lastCall'.name)) =>
       /\ lastCall'.out = "false"
       /\ lastCall'.run.invoked = <<>>
       /\ lastCall'.run.focused = <<>>
       /\ data' = data
       /\ order' = order]_vars

\* C7 happens: validate of an unregistered name, with focusOnError, while a
\* field with a validator and an element is registered
C7_Witness ==
  /\ Returned("single")
  /\ ~Has(data, lastCall.name)
  /\ lastCall.run.focusOnError
  /\ lastCall.out = "false"
  /\ \E n \in DOMAIN data : data[n].validators # <<>> /\ data[n].ref # NoRef

\* C8: form validity: isValid is true exactly when no registered field has
\* an error and no registered field has a validator while untouched; so a
\* field with `required`, never touched and without errors, makes it false.
C8_FormValidity ==
  /\ isFormValid(data, order) <=>
       ~\E n \in DOMAIN data :
          \/ data[n].errors # <<>>
          \/ data[n].validators # <<>> /\ ~data[n].touched
  /\ (\E n \in DOMAIN data :
        data[n].validators = <<"required">> /\ ~data[n].touched /\ data[n].errors = <<>>)
       => ~isFormValid(data, order)

\* C8 happens: a field with the one validator `required`, touched, whose
\* validation has just passed: the form is valid
C8_Witness ==
  /\ Returned("single")
  /\ lastCall.out = "true"
  /\ data[lastCall.name].validators = <<"required">>
  /\ data[lastCall.name].touched
  /\ isFormValid(data, order)

\* the values that `!= ""` takes for the empty string
LooselyEmpty == {Str(""), Bool(FALSE), Num(0), Arr(<<>>), Arr(<<"">>)}

\* C9: dirty semantics: a field with a snapshot entry is dirty exactly when its
\* value differs from the entry, a field without one exactly when its value
\* is not the empty string, and the form exactly when some field is dirty.
C9_DirtySemantics ==
  /\ \A n \in DOMAIN data :
       isFieldDirty(data, initialData, n) <=>
         IF Has(initialData, n) THEN data[n].value # initialData[n]
         ELSE data[n].value # Str("")
  /\ isDirty(data, initialData) <=>
       \E n \in DOMAIN data : isFieldDirty(data, initialData, n)

\* what isFieldDirty computes instead: a field without a snapshot entry is
\* dirty exactly when its value is not loosely equal to the empty string
\* ("", false, 0 and an array that joins to "" are all clean)
DirtyUnderLooseEquality ==
  /\ \A n \in DOMAIN data :
       /\ dirty(data, initialData)[n] = isFieldDirty(data, initialData, n)
       /\ isFieldDirty(data, initialData, n) <=>
            IF Has(initialData, n) THEN data[n].value # initialData[n]
            ELSE data[n].value \notin LooselyEmpty
  /\ isDirty(data, initialData) <=>
       \E n \in DOMAIN data :
         IF Has(initialData, n) THEN data[n].value # initialData[n]
         ELSE data[n].value \notin LooselyEmpty

\* the keys of a field's path, from the root
KeysOf(field) == [i \in 1..Len(field.path) |-> field.path[i].value]

\* no registered field's path continues another's
PrefixFree ==
  \A n, m \in DOMAIN data :
    n # m => ~IsPrefix(KeysOf(data[n]), KeysOf(data[m]))

\* the first field, in key order, whose path runs through p
FirstThrough(p) ==
  order[CHOOSE i \in 1..Len(order) :
          /\ IsPrefix(p, KeysOf(data[order[i]]))
          /\ \A j \in 1..(i - 1) : ~IsPrefix(p, KeysOf(data[order[j]]))]

\* the projection of a member holds every field's member at the end of the
\* field's path, and every container on the way is an array when the segment
\* after it (in the field that made it) is an index and an object otherwise
Projects(memberKey) ==
  LET r == extractFieldsMember(data, order, memberKey)
  IN /\ ~r.threw
     /\ \A n \in DOMAIN data :
          LET keys == KeysOf(data[n])
          IN /\ keys \in DOMAIN r.object
             /\ r.object[keys].t = "leaf"
             /\ r.object[keys].v = Member(data[n], memberKey)
             /\ \A j \in 1..(Len(keys) - 1) :
                  LET p == SubSeq(keys, 1, j)
                  IN /\ p \in DOMAIN r.object
                     /\ r.object[p].t =
                          IF data[FirstThrough(p)].path[j + 1].arrayIndex
                          THEN "array" ELSE "object"

\* C10, as claimed: projection reaches every registered field's member along
\* its path, for value, touched and errors.
C10_Projection ==
  \A memberKey \in {"value", "touched", "errors"} : Projects(memberKey)

\* C10, amended: the same, for registries in which no field's path is a
\* proper prefix of another's.
C10_ProjectionPrefixFree ==
  PrefixFree => \A memberKey \in {"value", "touched", "errors"} : Projects(memberKey)

\* C10 happens: a.b and a.c project to { a: { b, c } }, and i.0 and i.1 to
\* { i: [ , ] }
C10_Witness ==
  /\ DOMAIN data = {NameAB, NameAC, NameI0, NameI1}
  /\ LET r == extractFieldsMember(data, order, "value")
     IN /\ ~r.threw
        /\ DOMAIN r.object =
             {<<<<"a">>>>, <<<<"a">>, <<"b">>>>, <<<<"a">>, <<"c">>>>,
              <<<<"i">>>>, <<<<"i">>, <<"0">>>>, <<<<"i">>, <<"1">>>>}
        /\ r.object[<<<<"a">>>>].t = "object"
        /\ r.object[<<<<"i">>>>].t = "array"
        /\ r.object[<<<<"a">>, <<"b">>>>].v = data[NameAB].value
        /\ r.object[<<<<"i">>, <<"1">>>>].v = data[NameI1].value

ArrayAfter(op, A, args) ==
  CASE op = "add" -> Append(A, args.value.s)
    [] op = "remove" -> SubSeq(A, 1, args.a) \o SubSeq(A, args.a + 2, Len(A))
    [] op = "set" -> [A EXCEPT ![args.a + 1] = args.value.s]
    [] OTHER -> [k \in 1..Len(A) |->
                  IF k = args.a + 1 THEN A[args.b + 1]
                  ELSE IF k = args.b + 1 THEN A[args.a + 1] ELSE A[k]]

\* the indices an operation names lie within A
InRange(op, A, args) ==
  CASE op = "add" -> TRUE
    [] op \in {"remove", "set"} -> args.a < Len(A)
    [] OTHER -> args.a < Len(A) /\ args.b < Len(A)

\* the validate call started in the step into the next state: still
\* suspended in its slot, or already over
Started == IF tasks'[lastCall'.task].st = "run" THEN tasks'[lastCall'.task]
           ELSE lastCall'.run

\* C12: array sub-controller: on a field whose value is the array A, add,
\* remove, set and swap write the whole new array (x appended, index i
\* dropped, index i replaced, a and b exchanged) as the field's value, touch
\* the field, leave every other field alone, and start a validation of that
\* field, whose first validator is given the new array.
C12_ArrayController ==
  [][(/\ lastCall'.op \in {"add", "remove", "set", "swap"}
      /\ Has(data, lastCall'.name)
      /\ data[lastCall'.name].value.k = "arr"
      /\ InRange(lastCall'.op, data[lastCall'.name].value.a, lastCall'.args)) =>
       LET n == lastCall'.name
           new == Arr(ArrayAfter(lastCall'.op, data[n].value.a, lastCall'.args))
       IN /\ data'[n].value = new
          /\ data'[n].touched
          /\ \A m \in DOMAIN data : m # n => data'[m] = data[m]
          /\ DOMAIN data' = DOMAIN data
          /\ lastCall'.out # "TypeError"
          /\ Started.kind = "single" /\ Started.names = <<n>>
          /\ Started.validators = data[n].validators
          /\ Started.validators # <<>> =>
               /\ Started.invoked[1] = data[n].validators[1]
               /\ Started.returned \o <<Started.pending>> # <<>>
               /\ (Started.returned \o <<Started.pending>>)[1] =
                    RunValidator(data[n].validators[1], new)]_vars

\* C12 happens: swap(0, 1) has just turned ["b", "c"] into ["c", "b"] on a
\* field with a validator, while another field is registered
C12_Witness ==
  /\ lastCall.op = "swap" /\ lastCall.args.a = 0 /\ lastCall.args.b = 1
  /\ Has(data, NameT) /\ Has(data, NameAB)
  /\ data[NameT].value = Arr(<<"c", "b">>)
  /\ data[NameT].validators = <<"required">>
  /\ tasks[lastCall.task].st = "run"

\* the scenario's first steps are reachable too: ["a", "b", "c"] after add
C12_WitnessAdd ==
  /\ lastCall.op = "add" /\ lastCall.args.value = Str("c")
  /\ Has(data, NameT) /\ data[NameT].value = Arr(<<"a", "b", "c">>)

\* the names an argument of clearErrors stands for in the registry d
Named(d, arg) ==
  IF arg.kind = "omitted" \/ (arg.kind = "many" /\ Len(arg.many) = 0) THEN DOMAIN d
  ELSE IF arg.kind = "one" THEN {arg.one}
  ELSE {arg.many[i] : i \in 1..Len(arg.many)}

\* C13: clearErrors empties the error lists of the registered fields it
\* names (one, those of a list, or all when given nothing or an empty
\* list) and changes nothing else: values, touched flags, validators, the
\* registered names and the other fields' error lists stay.
C13_ClearErrorsFrame ==
  [][(lastCall'.op = "clearErrors" /\ Named(data, lastCall'.target) \subseteq DOMAIN data) =>
       /\ lastCall'.out = "ok"
       /\ data' = [n \in DOMAIN data |->
                    IF n \in Named(data, lastCall'.target)
                    THEN [data[n] EXCEPT !.errors = <<>>] ELSE data[n]]
       /\ order' = order]_vars

\* C13 happens: clearErrors(["i.0", "a.b"]) has emptied both fields' lists,
\* and both fields keep their validators and their touched flag
C13_Witness ==
  /\ lastCall.op = "clearErrors"
  /\ lastCall.target = ManyNames(<<NameI0, NameAB>>)
  /\ lastCall.out = "ok"
  /\ \A n \in {NameI0, NameAB} :
       data[n].errors = <<>> /\ data[n].validators # <<>> /\ data[n].touched

\* C13 happens: clearErrors("a.b") has left the errors of "i.0" in place
C13_WitnessOne ==
  /\ lastCall.op = "clearErrors"
  /\ lastCall.target = OneName(NameAB)
  /\ Has(data, NameAB) /\ data[NameAB].errors = <<>>
  /\ Has(data, NameI0) /\ data[NameI0].errors # <<>>

\* the registry d without the record of name
Dropped(d, name) == [k \in DOMAIN d \ {name} |-> d[k]]

\* C14: removeField on a registered name deletes exactly that record: the
\* name is gone from the registry, the projected values, errors and touched
\* and the dirty map are those of the registry without it, validity and
\* dirtiness are those of the other fields, and the other records stay.
C14_RemoveFieldDeletes ==
  [][(lastCall'.op = "removeField" /\ Has(data, lastCall'.name)) =>
       LET n == lastCall'.name
           rest == Dropped(data, n)
           keys == Without(order, n)
       IN /\ ~Has(data', n)
          /\ data' = rest
          /\ order' = keys
          /\ \A memberKey \in {"value", "errors", "touched"} :
               extractFieldsMember(data', order', memberKey)
                 = extractFieldsMember(rest, keys, memberKey)
          /\ DOMAIN dirty(data', initialData') = DOMAIN rest
          /\ isFormValid(data', order') = isFormValid(rest, keys)
          /\ isDirty(data', initialData') = isDirty(rest, initialData)]_vars

\* C17: validation after removal: when a validate(name) run resumes from a
\* validator after its field has been removed, the run does not fail, the
\* field is not created again, and the registry is as removeField left it.
C17_ValidationAfterRemoval ==
  [][\A t \in Tasks :
       (/\ lastCall'.op = "validate" /\ lastCall'.task = t
        /\ tasks[t].st = "run" /\ tasks[t].kind = "single"
        /\ ~Has(data, Key(tasks[t]))) =>
         /\ lastCall'.out # "TypeError"
         /\ data' = data
         /\ order' = order]_vars

\* a submit's batch: validate over the fields registered when it was called
\* (the registry's keys then, a prefix of its keys now), with focusOnError
SubmitBatch(run) ==
  /\ run.kind = "batch"
  /\ run.focusOnError
  /\ Len(run.names) <= Len(order)
  /\ run.names = SubSeq(order, 1, Len(run.names))

\* C15: submit: handleSubmit runs validate over all registered fields with
\* focusOnError, and calls the callback, with the projected values of the
\* registry, in the step in which that batch has returned true and in no
\* other: not while the batch is suspended, not when it returned false.
C15_Submit ==
  /\ \A t \in Tasks : tasks[t].submit => SubmitBatch(tasks[t])
  /\ lastCall.op # "handleSubmit" => ~lastCall.callback.called
  /\ lastCall.op = "handleSubmit" =>
       LET run == lastCall.run
       IN /\ lastCall.callback.called <=> (run.st = "done" /\ run.ret)
          /\ run.st = "done" =>
               /\ SubmitBatch(run)
               /\ Len(run.collected) = Len(run.names)
               /\ run.ret <=> \A i \in 1..Len(run.collected) : run.collected[i].result
          /\ lastCall.callback.called =>
               lastCall.callback.values = extractFieldsMember(data, order, "value").object

\* C15 happens: a submit over two fields with validators has returned true
\* and the callback got { a: { b: "x" }, i: ["x"] }
C15_Witness ==
  /\ lastCall.op = "handleSubmit"
  /\ lastCall.callback.called
  /\ Len(lastCall.run.names) = 2
  /\ \A i \in 1..2 : lastCall.run.collected[i].result
  /\ lastCall.callback.values[<<<<"a">>, <<"b">>>>].v = Str("x")
  /\ lastCall.callback.values[<<<<"i">>, <<"0">>>>].v = Str("x")

\* C15 happens the other way: the second field of a submit failed, the
\* batch returned false after focusing it, and the callback was not called
C15_WitnessRejected ==
  /\ lastCall.op = "handleSubmit"
  /\ lastCall.run.st = "done" /\ ~lastCall.run.ret
  /\ Len(lastCall.run.names) = 2
  /\ lastCall.run.collected[1].result /\ ~lastCall.run.collected[2].result
  /\ Len(lastCall.run.focused) = 1
  /\ ~lastCall.callback.called

\* the names among the entries of an argument object
EntryNames(entries) == {entries[i].name : i \in 1..Len(entries)}

C16_WitnessDirty ==
  /\ lastCall.op = "setInitialValues" /\ lastCall.out = "dirty"
  /\ Has(initialData, NameAB) /\ initialData[NameAB] = Str("x")
  /\ Has(data, NameAB) /\ data[NameAB].value = Str("")

\* the messages a validator list gives for a value
RECURSIVE ErrorsFor(_, _)
ErrorsFor(validators, value) ==
  IF validators = <<>> THEN <<>>
  ELSE LET error == RunValidator(Head(validators), value)
       IN (IF error = Undefined THEN <<>> ELSE <<error>>)
            \o ErrorsFor(Tail(validators), value)

\* a validate(name) run of a registered field completed in the step into
\* this state
Completed ==
  /\ lastCall.op \in {"validate", "onInput"}
  /\ lastCall.run.st = "done" /\ lastCall.run.kind = "single"
  /\ lastCall.run.collected[1].known

\* C18: last write wins: when a validate run of a field completes, the
\* field's errors are the list that run collected, whatever other runs of
\* the field are in flight, have completed before it, or started after it.
C18_LastWriteWins ==
  Completed =>
    /\ data[lastCall.name].errors = lastCall.run.errors
    /\ lastCall.run.errors = Messages(lastCall.run.returned)

\* C18 happens: two runs of the field were in flight, the one that had
\* started first (on the value "") completed last, and now, with no run in
\* flight, the field holds the error of `required` although its value "x"
\* passes
C18_Witness ==
  /\ Completed
  /\ \A t \in DOMAIN tasks : tasks[t].st # "run"
  /\ data[lastCall.name].value = Str("x")
  /\ data[lastCall.name].validators = <<"required">>
  /\ data[lastCall.name].errors = <<"R">>
  /\ ErrorsFor(data[lastCall.name].validators, data[lastCall.name].value) = <<>>

\* C19: touched is monotonic: a registered field whose touched flag is true
\* keeps it true in the next state, as long as it stays registered.
C19_TouchedMonotonic ==
  [][\A n \in DOMAIN data :
       (data[n].touched /\ Has(data', n)) => data'[n].touched]_vars

\* what holds instead: every call but addField leaves a true touched flag
\* true
TouchedKeptByAllButAddField ==
  [][lastCall'.op # "addField" =>
       \A n \in DOMAIN data :
         (data[n].touched /\ Has(data', n)) => data'[n].touched]_vars

\* the validate call that moved in the step into the next state, as it is
\* after the step
Moved == IF lastCall'.task = 0 THEN IdleTask
         ELSE IF tasks'[lastCall'.task].st = "run" THEN tasks'[lastCall'.task]
         ELSE lastCall'.run

\* the runs of single fields that the call that moved had finished before
\* the step
FinishedBefore == IF lastCall'.task = 0 THEN 0
                  ELSE IF tasks[lastCall'.task].st = "run"
                       THEN Len(tasks[lastCall'.task].collected) ELSE 0

\* C20: atomic error replacement: every change of a registered field's
\* error list is (i) its replacement by the list of a validation run of the
\* field that finished in that step, (ii) its clearing by clearErrors or by
\* a registration, or (iii) the appending of the one error handed to
\* addError; a step that leaves a run suspended between two validators
\* writes nothing of what the run has collected so far.
C20_AtomicErrors ==
  [][\A n \in DOMAIN data :
       (Has(data', n) /\ data'[n].errors # data[n].errors) =>
         \/ /\ lastCall'.op = "validate"
            /\ \E i \in (FinishedBefore + 1)..Len(Moved.collected) :
                 /\ Moved.collected[i].name = n
                 /\ Moved.collected[i].known
                 /\ Moved.collected[i].complete
                 /\ Moved.collected[i].errors = data'[n].errors
         \/ /\ lastCall'.op \in {"clearErrors", "addField"}
            /\ data'[n].errors = <<>>
         \/ /\ lastCall'.op = "addError" /\ lastCall'.name = n
            /\ \E x \in ExternalErrors : data'[n].errors = Append(data[n].errors, x)]_vars

\* C20 happens: a run is suspended between its two validators, holding "A",
\* while the field's list is still the error handed to addError
C20_Witness ==
  \E t \in Tasks :
    /\ tasks[t].st = "run"
    /\ tasks[t].errors = <<"A">>
    /\ tasks[t].i = 2
    /\ Has(data, Key(tasks[t]))
    /\ data[Key(tasks[t])].errors = <<"E">>

\* C20 happens: the run has finished and replaced the list by ["A", "B"]
C20_WitnessReplaced ==
  /\ lastCall.op = "validate" /\ lastCall.run.st = "done"
  /\ \E n \in DOMAIN data : data[n].errors = <<"A", "B">>

\* the segments of a path put together again with dots between them
RECURSIVE Joined(_)
Joined(path) ==
  IF path = <<>> THEN <<>>
  ELSE IF Len(path) = 1 THEN path[1].value
  ELSE path[1].value \o <<".">> \o Joined(Tail(path))

\* C21: invariant I1: after every step each record of the registry, made by
\* addField, made again by a re-registration or made by setValues or
\* setInitialValues, has the path the Path Analyzer gives for its own name:
\* the pieces of the name between its dots, in order, none of them holding a
\* dot; and no step changes the path of a record that was there
C21_PathDerivable ==
  [][/\ \A n \in DOMAIN data' :
          /\ data'[n].path = analyzeNamePath(n)
          /\ Joined(data'[n].path) = n
          /\ \A i \in 1..Len(data'[n].path) :
               \A j \in 1..Len(data'[n].path[i].value) : data'[n].path[i].value[j] # "."
     /\ \A n \in DOMAIN data \cap DOMAIN data' : data'[n].path = data[n].path]_vars

\* setValues has just made the record of "i.0", whose path is i, 0 with the
\* second segment an array index, beside the record addField made of "a.b"
C21_Witness ==
  /\ lastCall.op = "setValues"
  /\ order = <<NameAB, NameI0>>
  /\ data[NameAB].value = Str("x") /\ data[NameAB].touched = FALSE
  /\ data[NameI0].path = <<[value |-> <<"i">>, arrayIndex |-> FALSE],
                           [value |-> <<"0">>, arrayIndex |-> TRUE]>>

\* C22: clearErrors given a name that is not registered, alone or in a list,
\* is a silent no-op for that name: the call does not throw, no record is
\* made for the name, the registered fields it names are cleared and every
\* other field keeps its error list
C22_ClearErrorsUnknownName ==
  [][(lastCall'.op = "clearErrors" /\ ~(Named(data, lastCall'.target) \subseteq DOMAIN data)) =>
       /\ lastCall'.out = "ok"
       /\ data' = [n \in DOMAIN data |->
                    IF n \in Named(data, lastCall'.target)
                    THEN [data[n] EXCEPT !.errors = <<>>] ELSE data[n]]
       /\ order' = order]_vars

\* C23: a batch validate never aborts its caller on a name that is not
\* registered: every batch that has ended has returned (it has not thrown),
\* it has run validate for each of its names, and it has returned false
\* when one of them was not registered
C23_BatchNeverAborts ==
  (lastCall.op = "validate" /\ lastCall.run.kind = "batch" /\ lastCall.run.st # "idle") =>
    /\ lastCall.run.st = "done"
    /\ Len(lastCall.run.collected) = Len(lastCall.run.names)
    /\ (\E i \in 1..Len(lastCall.run.collected) : ~lastCall.run.collected[i].known)
         => ~lastCall.run.ret

\* C24: a field that was never touched and has a validator blocks the
\* submission: handleSubmit does not call its callback while the registry
\* holds a field with a non-empty validator list and touched false
C24_UntouchedBlocksSubmit ==
  (lastCall.op = "handleSubmit" /\ lastCall.callback.called) =>
    \A n \in DOMAIN data : ~(Len(data[n].validators) > 0 /\ ~data[n].touched)

\* the names a batch was called for: those of its list, or the registry's
\* keys when it was called with nothing or with an empty list
BatchNames(arg, keys) ==
  IF arg.kind = "many" /\ Len(arg.many) > 0 THEN arg.many ELSE keys

\* C25: a batch validates its names one after the other, in their order:
\* (i) a batch called with nothing goes through the names registered at
\* the call, a batch called with a list through the list, and the names of
\* a batch in flight do not change; (ii) the runs it has finished are those
\* of its first names, in order, and the field it is suspended on is the
\* next one; (iii) a run of a registered field that finished in a step had
\* all its validators return and its list written to the field in that
\* step, before the next field's first validator was invoked; (iv) a batch
\* that returned has run each of its names.
C25_BatchSequential ==
  [][(lastCall'.task # 0 /\ Moved.kind = "batch") =>
       LET t == lastCall'.task
           run == Moved
       IN /\ tasks[t].st # "run" => run.names = BatchNames(lastCall'.target, order)
          /\ tasks[t].st = "run" => run.names = tasks[t].names
          /\ Len(run.collected) <= Len(run.names)
          /\ \A i \in 1..Len(run.collected) : run.collected[i].name = run.names[i]
          /\ run.st = "run" =>
               /\ run.pos = Len(run.collected) + 1
               /\ Len(run.invoked) >= 1
          /\ \A i \in (FinishedBefore + 1)..Len(run.collected) :
               run.collected[i].known =>
                 /\ run.collected[i].complete
                 /\ data'[run.names[i]].errors = run.collected[i].errors
          /\ run.st = "done" => Len(run.collected) = Len(run.names)]_vars

\* C25 happens: a batch over two fields is suspended in the first validator
\* of the second, and the first field holds the list its run collected
C25_Witness ==
  \E t \in Tasks :
    /\ tasks[t].st = "run" /\ tasks[t].kind = "batch"
    /\ Len(tasks[t].names) = 2 /\ tasks[t].pos = 2
    /\ Len(tasks[t].invoked) = 1 /\ tasks[t].returned = <<>>
    /\ tasks[t].collected[1].known
    /\ tasks[t].collected[1].errors = <<"A", "B">>
    /\ data[tasks[t].names[1]].errors = <<"A", "B">>

\* C25 happens: a batch called with nothing when only "a.b" was registered
\* has returned after validating "a.b" alone, although "i.0" was registered
\* while it was suspended
C25_WitnessSnapshot ==
  /\ lastCall.op = "validate" /\ lastCall.run.st = "done"
  /\ lastCall.run.kind = "batch"
  /\ lastCall.run.names = <<NameAB>>
  /\ order = <<NameAB, NameI0>>

\* validate call t is suspended in a validator that never resolves
HungIn(t) == tasks[t].st = "run" /\ tasks[t].pending = Hung

\* C26: termination of validation.  (i) Every validate call that is
\* suspended eventually ends or is waiting for a validator that never
\* resolves; so a call all of whose validators resolve ends.  (ii) A call
\* that ended over registered fields has returned, with a run for each of
\* its names each of which had all its validators return; the list of a run
\* that finished in a step is in the field after that step.  (iii) A call
\* suspended in a validator that never resolves never moves again: no step
\* is a step of it, and what it has collected is never written: there is no
\* cancellation, timeout or retry.
C26_Termination ==
  /\ \A t \in Tasks : (tasks[t].st = "run") ~> (tasks[t].st # "run" \/ HungIn(t))
  /\ [](lastCall.op = "validate" /\ lastCall.run.st # "idle" =>
          LET run == lastCall.run
          IN /\ run.st = "threw" => \E i \in 1..Len(run.names) : run.names[i] \notin DOMAIN data
             /\ run.st = "done" =>
                  /\ Len(run.collected) = Len(run.names)
                  /\ \A i \in 1..Len(run.names) :
                       run.collected[i].known => run.collected[i].complete)
  /\ [][/\ \A t \in Tasks : HungIn(t) => (tasks'[t] = tasks[t] /\ lastCall'.task # t)
        /\ lastCall'.task # 0 =>
             \A i \in (FinishedBefore + 1)..Len(Moved.collected) :
               Moved.collected[i].known =>
                 data'[Moved.names[i]].errors = Moved.collected[i].errors]_vars

\* C26 happens: a batch over two registered fields, each with two
\* validators that resolved, has returned
C26_Witness ==
  /\ lastCall.op = "validate" /\ lastCall.run.st = "done"
  /\ lastCall.run.kind = "batch"
  /\ Len(lastCall.run.names) = 2
  /\ \A i \in 1..2 :
       /\ lastCall.run.collected[i].known
       /\ lastCall.run.collected[i].errors = <<"A", "B">>
       /\ data[lastCall.run.names[i]].errors = <<"A", "B">>

\* C26 happens the other way: a run is suspended in a validator that never
\* resolves, holding the message "A" of the first validator, and the field's
\* list is still empty
C26_WitnessHung ==
  \E t \in Tasks :
    /\ HungIn(t)
    /\ tasks[t].errors = <<"A">>
    /\ data[Key(tasks[t])].errors = <<>>

\* C27: within one validate(name) run every validator is applied to the
\* same value, the one the field held when the run started; so the list a
\* completed run has written is what the field's validators give for one
\* single value among those the field was given
C27_OneValue ==
  Completed =>
    \E v \in WrittenValues :
      lastCall.run.errors = ErrorsFor(lastCall.run.validators, v)

\* C27 as the code has it: each validator of a run is applied to the value
\* the field holds when that validator is invoked (the first at the start
\* of the run, each later one when the one before it has resolved), and the
\* list a completed run writes is made of the messages so obtained, in
\* order
C27_ValueAtInvocation ==
  [][/\ (lastCall'.task # 0 /\ Moved.kind = "single" /\ Moved.st = "run") =>
          /\ Moved.i = Len(Moved.invoked)
          /\ Len(Moved.returned) = Moved.i - 1
          /\ Moved.pending = RunValidator(Moved.validators[Moved.i],
                                          data'[Key(Moved)].value)
          /\ tasks[lastCall'.task].st = "run" =>
               Moved.returned = Append(tasks[lastCall'.task].returned,
                                       tasks[lastCall'.task].pending)
     /\ (lastCall'.task # 0 /\ Moved.kind = "single" /\ Moved.st = "done"
           /\ tasks[lastCall'.task].st = "run") =>
          /\ Moved.returned = Append(tasks[lastCall'.task].returned,
                                     tasks[lastCall'.task].pending)
          /\ Moved.errors = Messages(Moved.returned)
          /\ data'[Key(Moved)].errors = Moved.errors]_vars

\* C27 happens: `required` ran on "" and `empty` on the "x" written while
\* the run was suspended: the run has written both messages, a list that no
\* single value gives
C27_Witness ==
  /\ Completed
  /\ lastCall.run.validators = <<"required", "empty">>
  /\ lastCall.run.errors = <<"R", "N">>
  /\ data[lastCall.name].errors = <<"R", "N">>
  /\ data[lastCall.name].value = Str("x")

\* C28: submit safety under interleaving: when handleSubmit calls its
\* callback, every field registered then has an empty error list, was
\* validated by the submit's batch, and holds a value its validators pass
\* (the batch validated it against the value it holds)
C28_SubmitSafety ==
  (lastCall.op = "handleSubmit" /\ lastCall.callback.called) =>
    \A n \in DOMAIN data :
      /\ data[n].errors = <<>>
      /\ \E i \in 1..Len(lastCall.run.collected) :
           lastCall.run.collected[i].name = n /\ lastCall.run.collected[i].known
      /\ ErrorsFor(data[n].validators, data[n].value) = <<>>

\* C29: reset restores the baseline: after reset() has returned the form is
\* not dirty, every registered field with a snapshot entry holds that
\* entry's value and every registered field without one holds the empty
\* string; reset does not throw, whatever names the snapshot holds
C29_ResetRestores ==
  [][lastCall'.op = "reset" =>
       /\ lastCall'.out # "TypeError"
       /\ ~isDirty(data', initialData')
       /\ \A n \in DOMAIN data' :
            data'[n].value = IF Has(initialData', n) THEN initialData'[n] ELSE Str("")]_vars

\* with no snapshot at all, reset() brings every registered field to the
\* empty string, empties every error list and leaves the form not dirty
ResetWithoutSnapshot ==
  [][(lastCall'.op = "reset" /\ initialOrder = <<>>) =>
       /\ lastCall'.out = "ok"
       /\ ~isDirty(data', initialData')
       /\ \A n \in DOMAIN data' : data'[n].value = Str("") /\ data'[n].errors = <<>>]_vars

====
